---- MODULE Spec2Model ----
(***************************************************************************)
(* The authentication session of the ticketing client: AuthProvider        *)
(* (context/auth), its AsyncStorage projection, the restoration effect     *)
(* that runs on mount, and the operations it hands to the screens.         *)
(*                                                                         *)
(* Every async operation is cut at its awaits: one action for the          *)
(* synchronous entry, one for each continuation.  A continuation's inputs  *)
(* are what the awaited promise settles with: the server's response, or    *)
(* the set of store operations of a Promise.all that succeeded.            *)
(* React state setters are taken to commit before the next continuation.   *)
(*                                                                         *)
(* The store can fail: a getItem, setItem or removeItem may reject.  The   *)
(* process can be stopped and started again at any point; the store        *)
(* survives, the memory does not.  The server answers with the shapes of   *)
(* its API, except where the code itself tests the body (login's email).   *)
(* Under Spec the callers issue one operation at a time.  ConcSpec lets    *)
(* calls overlap, within one life of the process and with a store that     *)
(* does what it is asked.  ScreenSpec adds the mode of the auth screen,    *)
(* its handlers and its sync effect, on top of the context.                *)
(***************************************************************************)
EXTENDS Naturals, FiniteSets, Sequences, TLC

VARIABLES
    user,               \* useState<AuthUser | null>
    accessToken,        \* useState<string | null>
    isLoading,          \* useState(false): operation in progress
    isRestoringAuth,    \* useState(true): ready == ~isRestoringAuth
    error,              \* useState<AppAuthError | null>, kept as its type
    pendingEmail,       \* useState<string | null>
    isRegistrationFlow, \* useState(false)
    storage,            \* AsyncStorage: key -> text or NULL
    restorePc,          \* position of the restoreAuthState effect
    ops,                \* the calls in flight, by slot
    ret,                \* the call that finished last, until the next event
    mode                \* AuthScreen's useState<AuthMode>('choice')

vars == <<user, accessToken, isLoading, isRestoringAuth, error, pendingEmail,
          isRegistrationFlow, storage, restorePc, ops, ret, mode>>

----------------------------------------------------------------------------
(* Bounds and value sets                                                   *)

\* How many calls may overlap under ConcSpec.
MaxOverlap == 2

NULL == "null"

Emails == {"a@x.com", "b@x.com"}
Tokens == {"tok1", "tok2"}
Users  == {"u1", "u2"}

\* STORAGE_KEYS
PENDING_EMAIL        == "auth_pendingEmail"
IS_REGISTRATION_FLOW == "auth_isRegistrationFlow"
ACCESS_TOKEN         == "auth_accessToken"
USER                 == "auth_user"

AuthKeys    == {ACCESS_TOKEN, USER}
PendingKeys == {PENDING_EMAIL, IS_REGISTRATION_FLOW}
StorageKeys == AuthKeys \cup PendingKeys

\* Text no JSON parser accepts (a damaged entry of the medium).
Garbled == "{garbled"

----------------------------------------------------------------------------
(* JSON.stringify / JSON.parse on the two kinds of value the code passes   *)

ParseError == "SyntaxError"

StringifyUser(u) ==
    CASE u = "u1" -> "{\"user_id\":\"u1\"}"
      [] u = "u2" -> "{\"user_id\":\"u2\"}"

ParseUser(text) ==
    IF \E u \in Users : StringifyUser(u) = text
    THEN CHOOSE u \in Users : StringifyUser(u) = text
    ELSE ParseError

StringifyBool(b) == IF b THEN "true" ELSE "false"

\* The result is a pair <<parsed?, value>>.
ParseBool(text) ==
    CASE text = "true"  -> <<TRUE, TRUE>>
      [] text = "false" -> <<TRUE, FALSE>>
      [] OTHER          -> <<FALSE, FALSE>>

\* JavaScript truthiness of a string | null.
Truthy(x) == x # NULL /\ x # ""

----------------------------------------------------------------------------
(* AsyncStorage                                                            *)

EmptyStorage == [k \in StorageKeys |-> NULL]

\* The two removals of signOut's Promise.all; done holds those that succeeded.
RemoveAuthKeys(st, done) ==
    [k \in StorageKeys |-> IF k \in AuthKeys \cap done THEN NULL ELSE st[k]]

\* The two writes of verifyOtp's Promise.all.
PersistAuth(st, token, u, done) ==
    [k \in StorageKeys |->
        CASE k = ACCESS_TOKEN /\ k \in done -> token
          [] k = USER /\ k \in done         -> StringifyUser(u)
          [] OTHER                          -> st[k]]

\* saveOtpState: two writes when the email is truthy, two removals otherwise.
\* Its try/catch swallows a failure, so it always returns normally.
SaveOtpState(st, email, isRegistration, done) ==
    [k \in StorageKeys |->
        CASE k = PENDING_EMAIL /\ k \in done ->
                 IF Truthy(email) THEN email ELSE NULL
          [] k = IS_REGISTRATION_FLOW /\ k \in done ->
                 IF Truthy(email) THEN StringifyBool(isRegistration) ELSE NULL
          [] OTHER -> st[k]]

----------------------------------------------------------------------------
(* Calls in flight                                                         *)

Slots == 1 .. MaxOverlap

\* The two halves of the session, in memory and in the store.
AuthPart ==
    [user |-> user, accessToken |-> accessToken,
     storedToken |-> storage[ACCESS_TOKEN], storedUser |-> storage[USER]]

PendingPart ==
    [pendingEmail |-> pendingEmail, isRegistrationFlow |-> isRegistrationFlow,
     storedEmail |-> storage[PENDING_EMAIL],
     storedFlag |-> storage[IS_REGISTRATION_FLOW]]

NoAuthPart ==
    [user |-> NULL, accessToken |-> NULL, storedToken |-> NULL, storedUser |-> NULL]

NoPendingPart ==
    [pendingEmail |-> NULL, isRegistrationFlow |-> FALSE,
     storedEmail |-> NULL, storedFlag |-> NULL]

\* kind: the operation; pc: the await it is suspended at; email, isReg: its
\* arguments; token, u: what the server answered (for getProfile and
\* fetchWithAuth, token is the one sent); status: the HTTP status
\* fetchWithAuth got, or 200 for a login that got a body; failed: the store operations of this call that failed;
\* again: the call came right after the returned call its contract refers
\* to (a signOut after a signOut, a startOtpFlow after a login);
\* newest: no call has started since this one; stale: a signOut completed
\* while this call was in flight;
\* preAuth, prePending: the halves of the session as they were at the call,
\* kept for the operations whose contract refers to them.
Task(kind, pc, email, isReg, preAuth, prePending) ==
    [kind |-> kind, pc |-> pc, email |-> email, isReg |-> isReg,
     token |-> NULL, u |-> NULL, status |-> 0, failed |-> {}, again |-> FALSE,
     newest |-> FALSE, stale |-> FALSE,
     preAuth |-> preAuth, prePending |-> prePending]

Idle == Task("idle", "idle", NULL, FALSE, NoAuthPart, NoPendingPart)

\* The slot a new call takes when at most lim calls may overlap.
FreeSlots(lim) ==
    {s \in Slots : /\ s <= lim
                   /\ ops[s] = Idle
                   /\ \A t \in Slots : t < s => ops[t] # Idle}

AllIdle == \A s \in Slots : ops[s] = Idle

\* What a call keeps of the session as it was at the call: a call made while
\* another one is in flight keeps nothing, its contract is that of a call
\* made alone.
AuthAtCall == IF AllIdle THEN AuthPart ELSE NoAuthPart

PendingAtCall == IF AllIdle THEN PendingPart ELSE NoPendingPart

\* The calls in flight once call t has started in slot s: t is the newest.
Started(s, t) ==
    [r \in Slots |->
        IF r = s THEN [t EXCEPT !.newest = TRUE]
        ELSE IF ops[r] = Idle THEN Idle
        ELSE [ops[r] EXCEPT !.newest = FALSE]]

\* Faulty variant: the context's isLoading also covers the calls in progress.
IsLoadingAuthOrBusy == isRestoringAuth \/ isLoading

\* The isLoading the context hands out.
IsLoadingAuth == isRestoringAuth

Ready == ~IsLoadingAuth

\* segments[0] of the current route: a screen of the Stack, or none.
Segments == {"auth", "(tabs)", "modal", NULL}

\* Faulty variant: the layout decides on the route without waiting for isLoading.
RootLayoutNavUnguarded(segment) ==
    IF user = NULL /\ segment # "auth" THEN "Redirect /auth"
    ELSE IF user # NULL /\ segment = "auth" THEN "Redirect /(tabs)"
    ELSE "Stack"

\* What RootLayoutNav renders on the route whose first segment is segment.
RootLayoutNav(segment) ==
    IF IsLoadingAuth THEN "ActivityIndicator"
    ELSE IF user = NULL /\ segment # "auth" THEN "Redirect /auth"
    ELSE IF user # NULL /\ segment = "auth" THEN "Redirect /(tabs)"
    ELSE "Stack"

\* Faulty variant: the Stack is mounted under the spinner, the screens can act
\* during restoration.
ScreensMountedAlways == TRUE

\* The screens are mounted only once RootLayoutNav stops showing the spinner.
ScreensMounted == ~IsLoadingAuth

Returned(t) == [t EXCEPT !.pc = "returned"]
Threw(t)    == [t EXCEPT !.pc = "threw"]

----------------------------------------------------------------------------
Init ==
    /\ user = NULL
    /\ accessToken = NULL
    /\ isLoading = FALSE
    /\ isRestoringAuth = TRUE
    /\ error = NULL
    /\ pendingEmail = NULL
    /\ isRegistrationFlow = FALSE
    /\ storage = EmptyStorage
    /\ restorePc = "reading"
    /\ ops = [s \in Slots |-> Idle]
    /\ ret = Idle
    /\ mode = "choice"

----------------------------------------------------------------------------
(* Restoration: the effect AuthProvider runs on mount                      *)

\* What one getItem of the Promise.all settles with: the stored text, a
\* rejection, or (for the two JSON entries, when present) damaged text.
ReadOutcomes ==
    {o \in [StorageKeys -> {"value", "reject", "garbled"}] :
        \A k \in StorageKeys :
            o[k] = "garbled" => /\ k \in {USER, IS_REGISTRATION_FLOW}
                                /\ storage[k] # NULL}

ReadItem(k, o) == IF o[k] = "garbled" THEN Garbled ELSE storage[k]

\* Faulty variant: setIsRestoringAuth(false) is the last statement of the try body
\* instead of the finally, so a rejection or a throw skips it.
RestoredWithoutFinally(o) ==
    LET rejected    == \E k \in StorageKeys : o[k] = "reject"
        storedToken == ReadItem(ACCESS_TOKEN, o)
        storedUser  == ReadItem(USER, o)
        storedEmail == ReadItem(PENDING_EMAIL, o)
        storedFlag  == ReadItem(IS_REGISTRATION_FLOW, o)
        parsedUser  == ParseUser(storedUser)
        parsedFlag  == ParseBool(storedFlag)
    IN  [accessToken |->
             IF ~rejected /\ Truthy(storedToken) THEN storedToken ELSE accessToken,
         user |->
             IF ~rejected /\ Truthy(storedUser) /\ parsedUser # ParseError
             THEN parsedUser ELSE user,
         pendingEmail |->
             IF ~rejected /\ Truthy(storedEmail) THEN storedEmail ELSE pendingEmail,
         isRegistrationFlow |->
             IF ~rejected /\ storedFlag # NULL /\ parsedFlag[1]
             THEN parsedFlag[2] ELSE isRegistrationFlow,
         isRestoringAuth |->
             rejected \/ (storedFlag # NULL /\ ~parsedFlag[1])]

\* Faulty variant: JSON.parse(storedUser) has no try/catch of its own, so a blob
\* that does not parse throws to the outer catch and skips the statements
\* after it (the pending email and the registration flag).
RestoredUserParseAborts(o) ==
    LET rejected    == \E k \in StorageKeys : o[k] = "reject"
        storedToken == ReadItem(ACCESS_TOKEN, o)
        storedUser  == ReadItem(USER, o)
        storedEmail == ReadItem(PENDING_EMAIL, o)
        storedFlag  == ReadItem(IS_REGISTRATION_FLOW, o)
        parsedUser  == ParseUser(storedUser)
        parsedFlag  == ParseBool(storedFlag)
        aborted     == rejected \/ (Truthy(storedUser) /\ parsedUser = ParseError)
    IN  [accessToken |->
             IF ~rejected /\ Truthy(storedToken) THEN storedToken ELSE accessToken,
         user |->
             IF ~rejected /\ Truthy(storedUser) /\ parsedUser # ParseError
             THEN parsedUser ELSE user,
         pendingEmail |->
             IF ~aborted /\ Truthy(storedEmail) THEN storedEmail ELSE pendingEmail,
         isRegistrationFlow |->
             IF ~aborted /\ storedFlag # NULL /\ parsedFlag[1]
             THEN parsedFlag[2] ELSE isRegistrationFlow,
         isRestoringAuth |-> FALSE]

\* The continuation of restoreAuthState after the four reads settled: the
\* try body in statement order, the catch, and the finally.
Restored(o) ==
    LET rejected    == \E k \in StorageKeys : o[k] = "reject"
        storedToken == ReadItem(ACCESS_TOKEN, o)
        storedUser  == ReadItem(USER, o)
        storedEmail == ReadItem(PENDING_EMAIL, o)
        storedFlag  == ReadItem(IS_REGISTRATION_FLOW, o)
        parsedUser  == ParseUser(storedUser)
        parsedFlag  == ParseBool(storedFlag)
    IN  [accessToken |->
             IF ~rejected /\ Truthy(storedToken) THEN storedToken ELSE accessToken,
         user |->
             IF ~rejected /\ Truthy(storedUser) /\ parsedUser # ParseError
             THEN parsedUser ELSE user,
         pendingEmail |->
             IF ~rejected /\ Truthy(storedEmail) THEN storedEmail ELSE pendingEmail,
         isRegistrationFlow |->
             IF ~rejected /\ storedFlag # NULL /\ parsedFlag[1]
             THEN parsedFlag[2] ELSE isRegistrationFlow,
         isRestoringAuth |-> FALSE]

\* How the restoration ended, for the record in ret.
RestoreOutcome(o) ==
    CASE \E k \in StorageKeys : o[k] = "reject" -> "rejected"
      [] o[IS_REGISTRATION_FLOW] = "garbled"    -> "flagUnparsed"
      [] o[USER] = "garbled"                    -> "userUnparsed"
      [] OTHER                                  -> "restored"

RestoreAuthState(o) ==
    /\ restorePc = "reading"
    /\ LET r == Restored(o) IN
        /\ accessToken' = r.accessToken
        /\ user' = r.user
        /\ pendingEmail' = r.pendingEmail
        /\ isRegistrationFlow' = r.isRegistrationFlow
        /\ isRestoringAuth' = r.isRestoringAuth
    /\ restorePc' = "done"
    /\ ret' = [Idle EXCEPT !.kind = "restoreAuthState", !.pc = RestoreOutcome(o)]
    /\ UNCHANGED <<isLoading, error, storage, ops, mode>>

Restoration == \E o \in ReadOutcomes : RestoreAuthState(o)

\* The process is stopped and started again: AuthProvider mounts with its
\* initial state, the calls in flight are gone, the store is what it was.
ProcessRestart ==
    /\ user' = NULL
    /\ accessToken' = NULL
    /\ isLoading' = FALSE
    /\ isRestoringAuth' = TRUE
    /\ error' = NULL
    /\ pendingEmail' = NULL
    /\ isRegistrationFlow' = FALSE
    /\ restorePc' = "reading"
    /\ ops' = [s \in Slots |-> Idle]
    /\ ret' = Idle
    /\ mode' = "choice"
    /\ UNCHANGED storage

ClearError ==
    /\ ScreensMounted
    /\ error' = NULL
    /\ ret' = Idle
    /\ UNCHANGED <<user, accessToken, isLoading, isRestoringAuth, pendingEmail,
                   isRegistrationFlow, storage, restorePc, mode, ops>>

----------------------------------------------------------------------------
(* login and register                                                      *)

\* The call in slot s settles: its slot is free, t is what the caller sees.
\* A signOut that returns marks the calls still in flight as stale.
Finish(s, t) ==
    /\ ops' = [r \in Slots |->
                 IF r = s \/ ops[r] = Idle THEN Idle
                 ELSE IF ops[s].pc = "clear" /\ t.kind \in {"signOut", "fetchWithAuth"}
                      THEN [ops[r] EXCEPT !.stale = TRUE]
                 ELSE ops[r]]
    /\ ret' = t

LoginStart(lim, email) ==
    /\ ScreensMounted
    /\ \E s \in FreeSlots(lim) :
        ops' = Started(s, Task("login", "net", email, FALSE, AuthAtCall, PendingAtCall))
    /\ isLoading' = TRUE
    /\ error' = NULL
    /\ ret' = Idle
    /\ UNCHANGED <<user, accessToken, isRestoringAuth, pendingEmail,
                   isRegistrationFlow, storage, restorePc, mode>>

\* Faulty variant: login hands back data.email without testing it.
LoginResponseUntested(s, dataEmail) ==
    /\ ops[s].kind = "login" /\ ops[s].pc = "net"
    /\ Finish(s, Returned([ops[s] EXCEPT !.email = dataEmail, !.status = 200]))
    /\ isLoading' = FALSE
    /\ UNCHANGED <<user, accessToken, isRestoringAuth, error, pendingEmail,
                   isRegistrationFlow, storage, restorePc, mode>>

\* apiRequest resolved with a body: data.email is an email or missing (NULL).
\* The record of the call keeps the answer: status 200 and data.email.
LoginResponse(s, dataEmail) ==
    /\ ops[s].kind = "login" /\ ops[s].pc = "net"
    /\ IF Truthy(dataEmail)
       THEN /\ Finish(s, Returned([ops[s] EXCEPT !.email = dataEmail, !.status = 200]))
            /\ UNCHANGED error
       ELSE /\ Finish(s, Threw([ops[s] EXCEPT !.email = dataEmail, !.status = 200]))
            /\ error' = "login"
    /\ isLoading' = FALSE
    /\ UNCHANGED <<user, accessToken, isRestoringAuth, pendingEmail,
                   isRegistrationFlow, storage, restorePc, mode>>

\* apiRequest threw: a non-2xx status or a failure of fetch itself.  Both
\* leave an error of type 'login'; only its message differs.
LoginFailed(s) ==
    /\ ops[s].kind = "login" /\ ops[s].pc = "net"
    /\ Finish(s, Threw(ops[s]))
    /\ error' = "login"
    /\ isLoading' = FALSE
    /\ UNCHANGED <<user, accessToken, isRestoringAuth, pendingEmail,
                   isRegistrationFlow, storage, restorePc, mode>>

RegisterStart(lim, email) ==
    /\ ScreensMounted
    /\ \E s \in FreeSlots(lim) :
        ops' = Started(s, Task("register", "net", email, TRUE, AuthAtCall, PendingAtCall))
    /\ isLoading' = TRUE
    /\ error' = NULL
    /\ ret' = Idle
    /\ UNCHANGED <<user, accessToken, isRestoringAuth, pendingEmail,
                   isRegistrationFlow, storage, restorePc, mode>>

RegisterResponse(s, dataEmail) ==
    /\ ops[s].kind = "register" /\ ops[s].pc = "net"
    /\ Finish(s, Returned([ops[s] EXCEPT !.email = dataEmail]))
    /\ isLoading' = FALSE
    /\ UNCHANGED <<user, accessToken, isRestoringAuth, error, pendingEmail,
                   isRegistrationFlow, storage, restorePc, mode>>

RegisterFailed(s) ==
    /\ ops[s].kind = "register" /\ ops[s].pc = "net"
    /\ Finish(s, Threw(ops[s]))
    /\ error' = "register"
    /\ isLoading' = FALSE
    /\ UNCHANGED <<user, accessToken, isRestoringAuth, pendingEmail,
                   isRegistrationFlow, storage, restorePc, mode>>

----------------------------------------------------------------------------
(* startOtpFlow and clearOtpFlow                                           *)

\* startOtpFlow(email, false) called right after a login that returned, as
\* handleLogin does.
AfterLogin(isRegistration) ==
    ret.kind = "login" /\ ret.pc = "returned" /\ ~isRegistration

\* Faulty variant: startOtpFlow sets the email and leaves the flow kind as it was.
StartOtpFlowStartKeepsFlag(lim, email, isRegistration) ==
    /\ ScreensMounted
    /\ \E s \in FreeSlots(lim) :
        ops' = Started(s,
                    [Task("startOtpFlow", "save", email, isRegistration,
                               IF AfterLogin(isRegistration) THEN ret.preAuth ELSE NoAuthPart,
                               NoPendingPart)
                             EXCEPT !.again = AfterLogin(isRegistration)])
    /\ pendingEmail' = email
    /\ isRegistrationFlow' = isRegistrationFlow
    /\ ret' = Idle
    /\ UNCHANGED <<user, accessToken, isLoading, isRestoringAuth, error,
                   storage, restorePc, mode>>

StartOtpFlowStart(lim, email, isRegistration) ==
    /\ ScreensMounted
    /\ \E s \in FreeSlots(lim) :
        ops' = Started(s,
                    [Task("startOtpFlow", "save", email, isRegistration,
                               IF AfterLogin(isRegistration) THEN ret.preAuth ELSE NoAuthPart,
                               NoPendingPart)
                             EXCEPT !.again = AfterLogin(isRegistration)])
    /\ pendingEmail' = email
    /\ isRegistrationFlow' = isRegistration
    /\ ret' = Idle
    /\ UNCHANGED <<user, accessToken, isLoading, isRestoringAuth, error,
                   storage, restorePc, mode>>

StartOtpFlowSaved(s, done) ==
    /\ ops[s].kind = "startOtpFlow" /\ ops[s].pc = "save"
    /\ storage' = SaveOtpState(storage, ops[s].email, ops[s].isReg, done)
    /\ Finish(s, Returned([ops[s] EXCEPT !.failed = PendingKeys \ done]))
    /\ UNCHANGED <<user, accessToken, isLoading, isRestoringAuth, error,
                   pendingEmail, isRegistrationFlow, restorePc, mode>>

ClearOtpFlowStart(lim) ==
    /\ ScreensMounted
    /\ \E s \in FreeSlots(lim) :
        ops' = Started(s, Task("clearOtpFlow", "clear", NULL, FALSE, NoAuthPart, NoPendingPart))
    /\ pendingEmail' = NULL
    /\ isRegistrationFlow' = FALSE
    /\ ret' = Idle
    /\ UNCHANGED <<user, accessToken, isLoading, isRestoringAuth, error,
                   storage, restorePc, mode>>

ClearOtpFlowSaved(s, done) ==
    /\ ops[s].kind = "clearOtpFlow" /\ ops[s].pc = "clear"
    /\ storage' = SaveOtpState(storage, NULL, FALSE, done)
    /\ Finish(s, Returned([ops[s] EXCEPT !.failed = PendingKeys \ done]))
    /\ UNCHANGED <<user, accessToken, isLoading, isRestoringAuth, error,
                   pendingEmail, isRegistrationFlow, restorePc, mode>>

----------------------------------------------------------------------------
(* verifyOtp                                                               *)

VerifyOtpStart(lim, email) ==
    /\ ScreensMounted
    /\ \E s \in FreeSlots(lim) :
        ops' = Started(s, Task("verifyOtp", "net", email, FALSE, NoAuthPart, PendingAtCall))
    /\ isLoading' = TRUE
    /\ error' = NULL
    /\ ret' = Idle
    /\ UNCHANGED <<user, accessToken, isRestoringAuth, pendingEmail,
                   isRegistrationFlow, storage, restorePc, mode>>

\* apiRequest resolved with {access_token, user}: both are set in memory and
\* the two setItem calls are issued.
VerifyOtpResponse(s, token, u) ==
    /\ ops[s].kind = "verifyOtp" /\ ops[s].pc = "net"
    /\ accessToken' = token
    /\ user' = u
    /\ ops' = [ops EXCEPT ![s] = [@ EXCEPT !.pc = "persist", !.token = token, !.u = u]]
    /\ UNCHANGED <<isLoading, isRestoringAuth, error, pendingEmail,
                   isRegistrationFlow, storage, restorePc, mode, ret>>

\* The error type the catch of verifyOtp puts into the slot.
VerifyOtpErrorType == "otp"

\* Faulty variant: the catch of verifyOtp also abandons the pending verification.
VerifyOtpFailedClearsPending(s) ==
    /\ ops[s].kind = "verifyOtp" /\ ops[s].pc = "net"
    /\ error' = VerifyOtpErrorType
    /\ isLoading' = FALSE
    /\ pendingEmail' = NULL
    /\ isRegistrationFlow' = FALSE
    /\ Finish(s, Threw(ops[s]))
    /\ UNCHANGED <<user, accessToken, isRestoringAuth, storage, restorePc, mode>>

\* apiRequest threw: catch, then finally.
VerifyOtpFailed(s) ==
    /\ ops[s].kind = "verifyOtp" /\ ops[s].pc = "net"
    /\ error' = VerifyOtpErrorType
    /\ isLoading' = FALSE
    /\ Finish(s, Threw(ops[s]))
    /\ UNCHANGED <<user, accessToken, isRestoringAuth, pendingEmail,
                   isRegistrationFlow, storage, restorePc, mode>>

\* Faulty variant: the Promise.all of the two setItem calls is not awaited;
\* clearOtpFlow is entered with the writes still to land.
VerifyOtpPersistedUnawaited(s, done) ==
    /\ ops[s].kind = "verifyOtp" /\ ops[s].pc = "persist"
    /\ pendingEmail' = NULL
    /\ isRegistrationFlow' = FALSE
    /\ ops' = [ops EXCEPT ![s] = [@ EXCEPT !.pc = "clear"]]
    /\ UNCHANGED <<user, accessToken, isLoading, isRestoringAuth, error,
                   storage, restorePc, mode, ret>>

\* Faulty variant: setIsLoading(false) ends the try body instead of sitting in
\* the finally, so a rejected write leaves the indicator on.
VerifyOtpPersistedWithoutFinally(s, done) ==
    /\ ops[s].kind = "verifyOtp" /\ ops[s].pc = "persist"
    /\ storage' = PersistAuth(storage, ops[s].token, ops[s].u, done)
    /\ IF done = AuthKeys
       THEN /\ pendingEmail' = NULL
            /\ isRegistrationFlow' = FALSE
            /\ ops' = [ops EXCEPT ![s] = [@ EXCEPT !.pc = "clear"]]
            /\ UNCHANGED <<error, ret>>
       ELSE /\ error' = VerifyOtpErrorType
            /\ Finish(s, Threw([ops[s] EXCEPT !.failed = AuthKeys \ done]))
            /\ UNCHANGED <<pendingEmail, isRegistrationFlow>>
    /\ UNCHANGED <<user, accessToken, isLoading, isRestoringAuth, restorePc, mode>>

\* The Promise.all of the two setItem calls settled; done holds the writes
\* that succeeded.  Fulfilled: clearOtpFlow is entered.  Rejected: the same
\* catch and finally as for a failed request.
VerifyOtpPersisted(s, done) ==
    /\ ops[s].kind = "verifyOtp" /\ ops[s].pc = "persist"
    /\ storage' = PersistAuth(storage, ops[s].token, ops[s].u, done)
    /\ IF done = AuthKeys
       THEN /\ pendingEmail' = NULL
            /\ isRegistrationFlow' = FALSE
            /\ ops' = [ops EXCEPT ![s] = [@ EXCEPT !.pc = "clear"]]
            /\ UNCHANGED <<error, isLoading, ret>>
       ELSE /\ error' = VerifyOtpErrorType
            /\ isLoading' = FALSE
            /\ Finish(s, Threw([ops[s] EXCEPT !.failed = AuthKeys \ done]))
            /\ UNCHANGED <<pendingEmail, isRegistrationFlow>>
    /\ UNCHANGED <<user, accessToken, isRestoringAuth, restorePc, mode>>

\* saveOtpState(null, false) inside clearOtpFlow returned; then the finally.
VerifyOtpCleared(s, done) ==
    /\ ops[s].kind = "verifyOtp" /\ ops[s].pc = "clear"
    /\ storage' = SaveOtpState(storage, NULL, FALSE, done)
    /\ isLoading' = FALSE
    /\ Finish(s, Returned([ops[s] EXCEPT !.failed = PendingKeys \ done]))
    /\ UNCHANGED <<user, accessToken, isRestoringAuth, error, pendingEmail,
                   isRegistrationFlow, restorePc, mode>>

----------------------------------------------------------------------------
(* verifyEmail                                                             *)

\* Faulty variant: verifyEmail starts without setError(null).
VerifyEmailStartKeepsError(lim, email) ==
    /\ ScreensMounted
    /\ \E s \in FreeSlots(lim) :
        ops' = Started(s, Task("verifyEmail", "net", email, TRUE, AuthAtCall, NoPendingPart))
    /\ isLoading' = TRUE
    /\ ret' = Idle
    /\ UNCHANGED <<user, accessToken, isRestoringAuth, error, pendingEmail,
                   isRegistrationFlow, storage, restorePc, mode>>

VerifyEmailStart(lim, email) ==
    /\ ScreensMounted
    /\ \E s \in FreeSlots(lim) :
        ops' = Started(s, Task("verifyEmail", "net", email, TRUE, AuthAtCall, NoPendingPart))
    /\ isLoading' = TRUE
    /\ error' = NULL
    /\ ret' = Idle
    /\ UNCHANGED <<user, accessToken, isRestoringAuth, pendingEmail,
                   isRegistrationFlow, storage, restorePc, mode>>

\* Faulty variant: verifyEmail signs the user in, as verifyOtp does.
VerifyEmailResponseAuthenticates(s) ==
    /\ ops[s].kind = "verifyEmail" /\ ops[s].pc = "net"
    /\ \E t \in Tokens, u \in Users : accessToken' = t /\ user' = u
    /\ pendingEmail' = NULL
    /\ isRegistrationFlow' = FALSE
    /\ ops' = [ops EXCEPT ![s] = [@ EXCEPT !.pc = "clear"]]
    /\ UNCHANGED <<isLoading, isRestoringAuth, error, storage, restorePc, mode, ret>>

\* apiRequest resolved (the body is ignored): clearOtpFlow is entered.
VerifyEmailResponse(s) ==
    /\ ops[s].kind = "verifyEmail" /\ ops[s].pc = "net"
    /\ pendingEmail' = NULL
    /\ isRegistrationFlow' = FALSE
    /\ ops' = [ops EXCEPT ![s] = [@ EXCEPT !.pc = "clear"]]
    /\ UNCHANGED <<user, accessToken, isLoading, isRestoringAuth, error,
                   storage, restorePc, mode, ret>>

VerifyEmailFailed(s) ==
    /\ ops[s].kind = "verifyEmail" /\ ops[s].pc = "net"
    /\ error' = "verify"
    /\ isLoading' = FALSE
    /\ Finish(s, Threw(ops[s]))
    /\ UNCHANGED <<user, accessToken, isRestoringAuth, pendingEmail,
                   isRegistrationFlow, storage, restorePc, mode>>

VerifyEmailCleared(s, done) ==
    /\ ops[s].kind = "verifyEmail" /\ ops[s].pc = "clear"
    /\ storage' = SaveOtpState(storage, NULL, FALSE, done)
    /\ isLoading' = FALSE
    /\ Finish(s, Returned([ops[s] EXCEPT !.failed = PendingKeys \ done]))
    /\ UNCHANGED <<user, accessToken, isRestoringAuth, error, pendingEmail,
                   isRegistrationFlow, restorePc, mode>>

----------------------------------------------------------------------------
(* getProfile                                                              *)

\* Faulty variant: the token test sits inside the try, after setIsLoading(true)
\* and setError(null), so its throw passes through the catch and the finally.
GetProfileUnauthenticatedInsideTry(lim) ==
    /\ ScreensMounted
    /\ ~Truthy(accessToken)
    /\ FreeSlots(lim) # {}
    /\ ret' = Threw(Task("getProfile", "entry", NULL, FALSE, AuthAtCall, PendingAtCall))
    /\ error' = "profile"
    /\ isLoading' = FALSE
    /\ UNCHANGED <<user, accessToken, isRestoringAuth,
                   pendingEmail, isRegistrationFlow, storage, restorePc, mode, ops>>

\* Called without a token: it throws before anything is set or sent.
GetProfileUnauthenticated(lim) ==
    /\ ScreensMounted
    /\ ~Truthy(accessToken)
    /\ FreeSlots(lim) # {}
    /\ ret' = Threw(Task("getProfile", "entry", NULL, FALSE, AuthAtCall, PendingAtCall))
    /\ UNCHANGED <<user, accessToken, isLoading, isRestoringAuth, error,
                   pendingEmail, isRegistrationFlow, storage, restorePc, mode, ops>>

GetProfileStart(lim) ==
    /\ ScreensMounted
    /\ Truthy(accessToken)
    /\ \E s \in FreeSlots(lim) :
        ops' = Started(s,
                    [Task("getProfile", "net", NULL, FALSE, NoAuthPart, PendingAtCall)
                             EXCEPT !.token = accessToken])
    /\ isLoading' = TRUE
    /\ error' = NULL
    /\ ret' = Idle
    /\ UNCHANGED <<user, accessToken, isRestoringAuth, pendingEmail,
                   isRegistrationFlow, storage, restorePc, mode>>

\* A 2xx answer of /auth/me: the user is replaced by the projection of the
\* payload onto AuthUser (u); nothing is written to the store.
GetProfileResponse(s, u) ==
    /\ ops[s].kind = "getProfile" /\ ops[s].pc = "net"
    /\ user' = u
    /\ isLoading' = FALSE
    /\ Finish(s, Returned([ops[s] EXCEPT !.u = u]))
    /\ UNCHANGED <<accessToken, isRestoringAuth, error, pendingEmail,
                   isRegistrationFlow, storage, restorePc, mode>>

\* Faulty variant: the catch of getProfile re-throws without setError.
GetProfileFailedSilently(s) ==
    /\ ops[s].kind = "getProfile" /\ ops[s].pc = "net"
    /\ isLoading' = FALSE
    /\ Finish(s, Threw(ops[s]))
    /\ UNCHANGED <<user, accessToken, isRestoringAuth, error, pendingEmail,
                   isRegistrationFlow, storage, restorePc, mode>>

\* The request failed (fetch rejected, a non-2xx status, or a body that is
\* not JSON): catch, then finally.
GetProfileFailed(s) ==
    /\ ops[s].kind = "getProfile" /\ ops[s].pc = "net"
    /\ error' = "profile"
    /\ isLoading' = FALSE
    /\ Finish(s, Threw(ops[s]))
    /\ UNCHANGED <<user, accessToken, isRestoringAuth, pendingEmail,
                   isRegistrationFlow, storage, restorePc, mode>>

----------------------------------------------------------------------------
(* signOut, called by a screen or by fetchWithAuth on a 401                *)

SignOutStart(lim) ==
    /\ ScreensMounted
    /\ \E s \in FreeSlots(lim) :
        ops' = Started(s,
                    [Task("signOut", "remove", NULL, FALSE, AuthAtCall, PendingAtCall)
                             EXCEPT !.again = (ret.kind = "signOut" /\ ret.pc = "returned")])
    /\ user' = NULL
    /\ accessToken' = NULL
    /\ error' = NULL
    /\ ret' = Idle
    /\ UNCHANGED <<isLoading, isRestoringAuth, pendingEmail,
                   isRegistrationFlow, storage, restorePc, mode>>

\* The Promise.all of the two removeItem calls settled; done holds the
\* removals that succeeded.  Fulfilled: clearOtpFlow is entered.  Rejected:
\* nothing catches it, so signOut, and a fetchWithAuth awaiting it, reject.
SignOutRemoved(s, done) ==
    /\ ops[s].kind \in {"signOut", "fetchWithAuth"} /\ ops[s].pc = "remove"
    /\ storage' = RemoveAuthKeys(storage, done)
    /\ IF done = AuthKeys
       THEN /\ pendingEmail' = NULL
            /\ isRegistrationFlow' = FALSE
            /\ ops' = [ops EXCEPT ![s] = [@ EXCEPT !.pc = "clear"]]
            /\ UNCHANGED ret
       ELSE /\ Finish(s, Threw([ops[s] EXCEPT !.failed = AuthKeys \ done]))
            /\ UNCHANGED <<pendingEmail, isRegistrationFlow>>
    /\ UNCHANGED <<user, accessToken, isLoading, isRestoringAuth, error, restorePc, mode>>

\* saveOtpState(null, false) inside clearOtpFlow returned: signOut returns,
\* and fetchWithAuth returns the response it got.
SignOutCleared(s, done) ==
    /\ ops[s].kind \in {"signOut", "fetchWithAuth"} /\ ops[s].pc = "clear"
    /\ storage' = SaveOtpState(storage, NULL, FALSE, done)
    /\ Finish(s, Returned([ops[s] EXCEPT !.failed = PendingKeys \ done]))
    /\ UNCHANGED <<user, accessToken, isLoading, isRestoringAuth, error,
                   pendingEmail, isRegistrationFlow, restorePc, mode>>

----------------------------------------------------------------------------
(* fetchWithAuth                                                           *)

Statuses == {200, 401, 500}

\* The request is sent with the token held at the call, if any.
FetchWithAuthStart(lim) ==
    /\ ScreensMounted
    /\ \E s \in FreeSlots(lim) :
        ops' = Started(s,
                    [Task("fetchWithAuth", "net", NULL, FALSE, NoAuthPart, NoPendingPart)
                             EXCEPT !.token = accessToken])
    /\ ret' = Idle
    /\ UNCHANGED <<user, accessToken, isLoading, isRestoringAuth, error,
                   pendingEmail, isRegistrationFlow, storage, restorePc, mode>>

\* Faulty variant: a 401 tears the session down only if the token sent is
\* the token still held.
FetchWithAuthResponseComparesToken(s, status) ==
    /\ ops[s].kind = "fetchWithAuth" /\ ops[s].pc = "net"
    /\ IF status = 401 /\ ops[s].token = accessToken
       THEN /\ user' = NULL
            /\ accessToken' = NULL
            /\ error' = NULL
            /\ ops' = [ops EXCEPT ![s] = [@ EXCEPT !.pc = "remove", !.status = status]]
            /\ UNCHANGED ret
       ELSE /\ Finish(s, Returned([ops[s] EXCEPT !.status = status]))
            /\ UNCHANGED <<user, accessToken, error>>
    /\ UNCHANGED <<isLoading, isRestoringAuth, pendingEmail,
                   isRegistrationFlow, storage, restorePc, mode>>

\* fetch resolved.  On a 401 signOut is entered and awaited; any other
\* response is returned as it is.
FetchWithAuthResponse(s, status) ==
    /\ ops[s].kind = "fetchWithAuth" /\ ops[s].pc = "net"
    /\ IF status = 401
       THEN /\ user' = NULL
            /\ accessToken' = NULL
            /\ error' = NULL
            /\ ops' = [ops EXCEPT ![s] = [@ EXCEPT !.pc = "remove", !.status = status]]
            /\ UNCHANGED ret
       ELSE /\ Finish(s, Returned([ops[s] EXCEPT !.status = status]))
            /\ UNCHANGED <<user, accessToken, error>>
    /\ UNCHANGED <<isLoading, isRestoringAuth, pendingEmail,
                   isRegistrationFlow, storage, restorePc, mode>>

\* fetch itself rejected: no response, nothing is torn down.
FetchWithAuthFailed(s) ==
    /\ ops[s].kind = "fetchWithAuth" /\ ops[s].pc = "net"
    /\ Finish(s, Threw(ops[s]))
    /\ UNCHANGED <<user, accessToken, isLoading, isRestoringAuth, error,
                   pendingEmail, isRegistrationFlow, storage, restorePc, mode>>

----------------------------------------------------------------------------
(* AuthScreen: the mode it shows                                           *)

\* The auth route is rendered: the layout shows the Stack and no user is set.
AuthScreenShown == ScreensMounted /\ user = NULL

\* No handler of the screen is running (isSubmitting is false).
NotSubmitting == AllIdle

\* The effect that syncs mode with pendingEmail.
SyncMode ==
    /\ AuthScreenShown
    /\ Truthy(pendingEmail) /\ mode # "otp"
    /\ mode' = "otp"
    /\ UNCHANGED <<user, accessToken, isLoading, isRestoringAuth, error, pendingEmail,
                   isRegistrationFlow, storage, restorePc, ops, ret>>

\* One of the two buttons of the choice view.
ChooseMode(m) ==
    /\ AuthScreenShown
    /\ mode = "choice"
    /\ mode' = m
    /\ ret' = Idle
    /\ UNCHANGED <<user, accessToken, isLoading, isRestoringAuth, error, pendingEmail,
                   isRegistrationFlow, storage, restorePc, ops>>

HandleSwitchMode ==
    /\ AuthScreenShown /\ NotSubmitting
    /\ mode \in {"login", "register"}
    /\ mode' = IF mode = "login" THEN "register" ELSE "login"
    /\ error' = NULL
    /\ ret' = Idle
    /\ UNCHANGED <<user, accessToken, isLoading, isRestoringAuth, pendingEmail,
                   isRegistrationFlow, storage, restorePc, ops>>

HandleBackToChoice ==
    /\ AuthScreenShown /\ NotSubmitting
    /\ mode \in {"login", "register"}
    /\ mode' = "choice"
    /\ error' = NULL
    /\ ret' = Idle
    /\ UNCHANGED <<user, accessToken, isLoading, isRestoringAuth, pendingEmail,
                   isRegistrationFlow, storage, restorePc, ops>>

\* The Back link of the OTP view.  The record keeps the pending verification
\* as it was when Back was pressed.
HandleBackToForm ==
    /\ AuthScreenShown /\ NotSubmitting
    /\ mode = "otp"
    /\ mode' = IF isRegistrationFlow THEN "register" ELSE "login"
    /\ error' = NULL
    /\ ret' = [Idle EXCEPT !.kind = "handleBackToForm", !.pc = "returned",
                           !.prePending = PendingPart]
    /\ UNCHANGED <<user, accessToken, isLoading, isRestoringAuth, pendingEmail,
                   isRegistrationFlow, storage, restorePc, ops>>

\* handleVerifyOtp found no pendingEmail: after its clearOtpFlow the screen
\* starts over.
HandleVerifyOtpStartOver ==
    /\ AuthScreenShown /\ NotSubmitting
    /\ mode = "otp"
    /\ ~Truthy(pendingEmail)
    /\ ret.kind = "clearOtpFlow" /\ ret.pc = "returned"
    /\ mode' = "choice"
    /\ ret' = Idle
    /\ UNCHANGED <<user, accessToken, isLoading, isRestoringAuth, error, pendingEmail,
                   isRegistrationFlow, storage, restorePc, ops>>

\* OK of the alert handleVerifyOtp shows after verifyEmail returned.
RegistrationCompleteOk ==
    /\ AuthScreenShown /\ NotSubmitting
    /\ mode = "otp"
    /\ ret.kind = "verifyEmail" /\ ret.pc = "returned"
    /\ mode' = "login"
    /\ ret' = Idle
    /\ UNCHANGED <<user, accessToken, isLoading, isRestoringAuth, error, pendingEmail,
                   isRegistrationFlow, storage, restorePc, ops>>

\* A user is set: the layout redirects to the tabs, the auth screen is
\* unmounted and will mount again in its initial mode.
AuthScreenUnmount ==
    /\ ScreensMounted
    /\ user # NULL /\ mode # "choice"
    /\ mode' = "choice"
    /\ UNCHANGED <<user, accessToken, isLoading, isRestoringAuth, error, pendingEmail,
                   isRegistrationFlow, storage, restorePc, ops, ret>>

----------------------------------------------------------------------------
(* The next-state relations                                                *)

\* A call is entered with an address of emails; at most lim calls are in
\* flight afterwards.
CallOf(lim, emails) ==
    \/ \E e \in emails : LoginStart(lim, e)
    \/ \E e \in emails : RegisterStart(lim, e)
    \/ \E e \in emails, r \in BOOLEAN : StartOtpFlowStart(lim, e, r)
    \/ ClearOtpFlowStart(lim)
    \/ \E e \in emails : VerifyOtpStart(lim, e)
    \/ \E e \in emails : VerifyEmailStart(lim, e)
    \/ GetProfileUnauthenticated(lim)
    \/ GetProfileStart(lim)
    \/ SignOutStart(lim)
    \/ FetchWithAuthStart(lim)

Call(lim) == CallOf(lim, Emails)

\* An awaited promise of the call in slot s settles; the server answers with
\* values of emails, tokens and users.
SettleOf(s, emails, tokens, users) ==
    \/ \E e \in emails \cup {NULL} : LoginResponse(s, e)
    \/ LoginFailed(s)
    \/ \E e \in emails : RegisterResponse(s, e)
    \/ RegisterFailed(s)
    \/ \E done \in SUBSET PendingKeys : StartOtpFlowSaved(s, done)
    \/ \E done \in SUBSET PendingKeys : ClearOtpFlowSaved(s, done)
    \/ \E t \in tokens, u \in users : VerifyOtpResponse(s, t, u)
    \/ VerifyOtpFailed(s)
    \/ \E done \in SUBSET AuthKeys : VerifyOtpPersisted(s, done)
    \/ \E done \in SUBSET PendingKeys : VerifyOtpCleared(s, done)
    \/ VerifyEmailResponse(s)
    \/ VerifyEmailFailed(s)
    \/ \E done \in SUBSET PendingKeys : VerifyEmailCleared(s, done)
    \/ \E u \in users : GetProfileResponse(s, u)
    \/ GetProfileFailed(s)
    \/ \E done \in SUBSET AuthKeys : SignOutRemoved(s, done)
    \/ \E done \in SUBSET PendingKeys : SignOutCleared(s, done)
    \/ \E st \in Statuses : FetchWithAuthResponse(s, st)
    \/ FetchWithAuthFailed(s)

Settle(s) == SettleOf(s, Emails, Tokens, Users)

\* The callers issue one operation at a time.
Next ==
    \/ Restoration
    \/ ProcessRestart
    \/ ClearError
    \/ Call(1)
    \/ \E s \in Slots : Settle(s)

Spec == Init /\ [][Next]_vars

\* Each of the four store reads of restoration returns or fails.
LiveSpec == Spec /\ WF_vars(Restoration)

\* Every promise a call awaits settles: the request is answered or fails,
\* the store operation returns or rejects.
ProgressSpec == Spec /\ WF_vars(\E s \in Slots : Settle(s))

\* A step in which the store does what it is asked: no read, write or
\* removal fails, no entry is damaged, and the process is stopped only
\* between calls.
StoreSucceeds ==
    /\ ret'.failed = {}
    /\ ret'.kind = "restoreAuthState" => ret'.pc = "restored"
    /\ restorePc' = "reading" => AllIdle

FaultFreeNext ==
    \/ Restoration /\ StoreSucceeds
    \/ ProcessRestart /\ StoreSucceeds
    \/ ClearError
    \/ Call(1)
    \/ \E s \in Slots : Settle(s) /\ StoreSucceeds

\* The runs in which every store operation succeeds and every call completes.
FaultFreeSpec == Init /\ [][FaultFreeNext]_vars

\* The values of the runs with overlapping calls: one address, one token
\* and one profile.
OneEmail == {CHOOSE e \in Emails : TRUE}

OneToken == {CHOOSE t \in Tokens : TRUE}

OneUser == {CHOOSE u \in Users : TRUE}

\* Callers that do not wait: up to MaxOverlap calls are in flight at once,
\* within one life of the process.  The store does what it is asked.
ConcNext ==
    \/ Restoration /\ StoreSucceeds
    \/ ClearError
    \/ CallOf(MaxOverlap, OneEmail)
    \/ \E s \in Slots : SettleOf(s, OneEmail, OneToken, OneUser) /\ StoreSucceeds

ConcSpec == Init /\ [][ConcNext]_vars

\* The auth screen on top of the context: callers that wait, a store that
\* does what it is asked, and the handlers and the effect that set mode.
ScreenNext ==
    \/ Restoration /\ StoreSucceeds
    \/ ProcessRestart /\ StoreSucceeds
    \/ ClearError
    \/ Call(1)
    \/ \E s \in Slots : Settle(s) /\ StoreSucceeds
    \/ SyncMode
    \/ \E m \in {"login", "register"} : ChooseMode(m)
    \/ HandleSwitchMode
    \/ HandleBackToChoice
    \/ HandleBackToForm
    \/ HandleVerifyOtpStartOver
    \/ RegistrationCompleteOk
    \/ AuthScreenUnmount

ScreenSpec == Init /\ [][ScreenNext]_vars

----------------------------------------------------------------------------
(* Properties                                                              *)

\* C1: whenever ready is true and no operation is in flight, user is set if
\* and only if accessToken is set.
C1_UserIffToken ==
    (Ready /\ AllIdle) => ((user # NULL) <=> Truthy(accessToken))

\* C2: when the network call of verifyOtp succeeded and the call has
\* completed, user and accessToken are those of the response, pending is
\* absent in memory, the access-token and user keys hold the response's
\* values and both pending keys are absent from the store.
C2_VerifyOtpAuthenticates ==
    (ret.kind = "verifyOtp" /\ ret.token # NULL) =>
        /\ user = ret.u
        /\ accessToken = ret.token
        /\ pendingEmail = NULL
        /\ storage[ACCESS_TOKEN] = ret.token
        /\ storage[USER] = StringifyUser(ret.u)
        /\ storage[PENDING_EMAIL] = NULL
        /\ storage[IS_REGISTRATION_FLOW] = NULL

\* C3: when verifyOtp fails, pending (email and flow kind) is in memory and
\* in the store what it was before the call, and the error slot holds an
\* error of type 'otp'.
C3_FailedVerifyOtpKeepsPending ==
    (ret.kind = "verifyOtp" /\ ret.pc = "threw") =>
        /\ PendingPart = ret.prePending
        /\ error = "otp"

\* A verifyOtp failed while a verification was pending in memory and store.
C3_Witness ==
    /\ ret.kind = "verifyOtp" /\ ret.pc = "threw"
    /\ ret.prePending.pendingEmail # NULL
    /\ ret.prePending.storedEmail # NULL
    /\ ret.prePending.storedFlag # NULL

C5_AnonymousAfter401 ==
    (ret.kind = "fetchWithAuth" /\ ret.status = 401) =>
        /\ user = NULL
        /\ accessToken = NULL
        /\ pendingEmail = NULL

\* C6: a fetchWithAuth call that received a 401 ends by returning that
\* response, after the signOut it triggered has cleared the memory; it never
\* ends in a failure raised by the teardown.
C6_401ResponseIsReturned ==
    (ret.kind = "fetchWithAuth" /\ ret.status = 401) =>
        /\ ret.pc = "returned"
        /\ user = NULL /\ accessToken = NULL /\ error = NULL
        /\ pendingEmail = NULL /\ isRegistrationFlow = FALSE

\* C7: after signOut has completed, user, accessToken, error and pending are
\* absent in memory, the registration flag is false, and the four keys are
\* absent from the store.
C7_SignOutClearsEverything ==
    (ret.kind = "signOut") =>
        /\ user = NULL /\ accessToken = NULL /\ error = NULL
        /\ pendingEmail = NULL /\ isRegistrationFlow = FALSE
        /\ \A k \in StorageKeys : storage[k] = NULL

\* C8: a signOut called right after a signOut, or on an Anonymous session,
\* reports no error and leaves memory and store as they were at the call.
C8_SignOutIdempotent ==
    (/\ ret.kind = "signOut"
     /\ \/ ret.again
        \/ /\ ret.preAuth.user = NULL
           /\ ret.preAuth.accessToken = NULL
           /\ ret.prePending.pendingEmail = NULL) =>
        /\ ret.pc = "returned"
        /\ error = NULL
        /\ AuthPart = ret.preAuth
        /\ PendingPart = ret.prePending

\* C9: ready is false initially; it becomes true only by the step that
\* finishes restoration, which runs once in the life of the process; and
\* nothing but a new start of the process makes it false again.
C9_ReadyOnce ==
    /\ ~Ready
    /\ [][/\ (~Ready /\ Ready') => (restorePc = "reading" /\ restorePc' = "done")
          /\ (Ready /\ ~Ready') => ProcessRestart
          /\ (restorePc = "done" /\ restorePc' = "reading") => ProcessRestart]_vars

\* Ready is true and operations have run since restoration.
C9_Witness ==
    /\ Ready
    /\ ret.kind = "verifyOtp" /\ ret.pc = "returned"
    /\ isLoading = FALSE

\* C10: restoration always finishes: whatever the store holds and however
\* the four reads end, ready eventually becomes true.
C10_RestorationFinishes ==
    (restorePc = "reading") ~> Ready

\* Restoration has finished with ready true although a read was rejected, or
\* the registration flag did not parse.
C10_Witness ==
    /\ Ready
    /\ ret.kind = "restoreAuthState"
    /\ ret.pc \in {"rejected", "flagUnparsed"}
    /\ storage[ACCESS_TOKEN] # NULL

----------------------------------------------------------------------------
(* The three session states of the state machine, derived from the fields  *)

Anonymous ==
    user = NULL /\ ~Truthy(accessToken) /\ pendingEmail = NULL

PendingVerification ==
    pendingEmail # NULL /\ user = NULL /\ ~Truthy(accessToken)

Authenticated ==
    user # NULL /\ Truthy(accessToken)

\* C11: when restoration completes, the session is Anonymous,
\* PendingVerification or Authenticated, whatever earlier operations, store
\* failures and process stops left in the store.
C11_RestorationReachesAState ==
    (ret.kind = "restoreAuthState") =>
        (Anonymous \/ PendingVerification \/ Authenticated)

\* C12: if the registration-flag key is absent from the store, pendingEmail
\* is null after restoration, also when the pending-email key is present.
C12_PendingPairBothOrNeither ==
    (ret.kind = "restoreAuthState" /\ storage[IS_REGISTRATION_FLOW] = NULL) =>
        pendingEmail = NULL

\* C13: a user blob that does not parse leaves the user absent and nothing
\* else: the step that finishes restoration sets accessToken, pendingEmail
\* and the registration flag to what it would set them to had the blob
\* parsed, and makes ready true.
C13_UserParseFailureIsIsolated ==
    [][(restorePc = "reading" /\ restorePc' = "done") =>
       \A o \in ReadOutcomes :
          (o[USER] = "garbled" /\ RestoreAuthState(o)) =>
              LET valid == Restored([o EXCEPT ![USER] = "value"]) IN
                  /\ user' = NULL
                  /\ accessToken' = valid.accessToken
                  /\ pendingEmail' = valid.pendingEmail
                  /\ isRegistrationFlow' = valid.isRegistrationFlow
                  /\ ~isRestoringAuth']_vars

\* Restoration met a user blob that did not parse and restored the token,
\* the pending email and the registration flag stored next to it.
C13_Witness ==
    /\ ret.kind = "restoreAuthState" /\ ret.pc = "userUnparsed"
    /\ Ready
    /\ user = NULL
    /\ accessToken # NULL
    /\ pendingEmail # NULL
    /\ isRegistrationFlow

\* The store a write-through of the memory would hold.
Projection ==
    [k \in StorageKeys |->
        CASE k = ACCESS_TOKEN         -> accessToken
          [] k = USER                 -> IF user = NULL THEN NULL ELSE StringifyUser(user)
          [] k = PENDING_EMAIL        -> pendingEmail
          [] k = IS_REGISTRATION_FLOW ->
                 IF pendingEmail = NULL THEN NULL ELSE StringifyBool(isRegistrationFlow)]

\* C14: whenever ready is true and no operation is in flight, the store is
\* the projection of the memory, in every run in which all store operations
\* succeed and all calls complete.
C14_WriteThrough ==
    (Ready /\ AllIdle) => storage = Projection

C16_LoginRegisterFrame ==
    /\ \A s \in Slots :
          ops[s].kind \in {"login", "register"} =>
              AuthPart = ops[s].preAuth /\ PendingPart = ops[s].prePending
    /\ ret.kind \in {"login", "register"} =>
          AuthPart = ret.preAuth /\ PendingPart = ret.prePending
    /\ (ret.kind = "login" /\ ret.status = 200 /\ ~Truthy(ret.email)) =>
          ret.pc = "threw" /\ error = "login"

\* A login on a session that holds a user, a token and a pending
\* verification was answered 2xx without an email.
C16_Witness ==
    /\ ret.kind = "login" /\ ret.status = 200 /\ ~Truthy(ret.email)
    /\ ret.pc = "threw"
    /\ user # NULL /\ accessToken # NULL /\ pendingEmail # NULL
    /\ storage[USER] # NULL /\ storage[PENDING_EMAIL] # NULL

\* C17: a getProfile called while no accessToken is held fails before a
\* request is issued and changes nothing: user, accessToken, pending, error
\* slot, in-progress indicator and store are after the call what they were
\* before it.
C17_GetProfileWithoutToken ==
    [][(/\ AllIdle
        /\ ~Truthy(accessToken)
        /\ \/ ret'.kind = "getProfile"
           \/ \E s \in Slots : ops'[s].kind = "getProfile") =>
           /\ ret'.pc = "threw"
           /\ ops' = ops
           /\ UNCHANGED <<user, accessToken, pendingEmail, isRegistrationFlow,
                          error, isLoading, storage>>]_vars

\* getProfile was called without a token while the error slot held an error
\* and a verification was pending.
C17_Witness ==
    /\ ret.kind = "getProfile" /\ ret.pc = "threw" /\ ret.token = NULL
    /\ ~Truthy(accessToken)
    /\ error # NULL
    /\ pendingEmail # NULL
    /\ storage[PENDING_EMAIL] # NULL

\* C18: a store write or removal that fails is not raised to the caller and
\* does not change the outcome: the call returns; a verifyOtp whose request
\* succeeded leaves no error in the slot; signOut and clearOtpFlow leave the
\* memory cleared.
C18_StoreFailureNeverRaised ==
    (ret.failed # {}) =>
        /\ ret.pc = "returned"
        /\ ret.kind = "verifyOtp" => error = NULL
        /\ ret.kind \in {"signOut", "clearOtpFlow"} =>
               pendingEmail = NULL /\ ~isRegistrationFlow
        /\ ret.kind = "signOut" => user = NULL /\ accessToken = NULL

\* The operations with a network step, and the type each one's catch gives
\* the error it puts into the slot.
NetworkOps == {"login", "register", "verifyOtp", "verifyEmail", "getProfile"}

ErrorType(kind) ==
    CASE kind = "login"       -> "login"
      [] kind = "register"    -> "register"
      [] kind = "verifyOtp"   -> "otp"
      [] kind = "verifyEmail" -> "verify"
      [] kind = "getProfile"  -> "profile"

\* C19, as stated: a login, register, verifyOtp, verifyEmail or getProfile
\* that fails leaves an error of its own type in the slot, and one that
\* succeeds leaves the slot empty.
C19_FailureSetsSlot ==
    (ret.kind \in NetworkOps) =>
        /\ ret.pc = "threw" => error = ErrorType(ret.kind)
        /\ ret.pc = "returned" => error = NULL

\* C19, amended: as stated, except for a getProfile called without a token,
\* which fails before its network step and does not touch the slot.
C19_FailureSetsSlotAfterEntry ==
    (ret.kind \in NetworkOps) =>
        /\ (ret.pc = "threw" /\ ~(ret.kind = "getProfile" /\ ret.token = NULL)) =>
               error = ErrorType(ret.kind)
        /\ ret.pc = "returned" => error = NULL

\* The request of a getProfile failed: the call threw and the slot holds an
\* error of type 'profile'.
C19_Witness ==
    /\ ret.kind = "getProfile" /\ ret.pc = "threw" /\ ret.token # NULL
    /\ error = "profile"

\* An operation of kind k is entered in this step.
Entered(k) ==
    \E s \in Slots : ops[s] = Idle /\ ops'[s].kind = k

\* signOut is entered by a fetchWithAuth that got a 401.
SignOutEnteredBy401 ==
    \E s \in Slots : ops[s].pc = "net" /\ ops'[s].pc = "remove"

\* getProfile is called without a token: it throws at once.
GetProfileRefused ==
    AllIdle /\ ~Truthy(accessToken) /\ ret'.kind = "getProfile"

\* C20, as stated: right after login, register, startOtpFlow, verifyOtp,
\* verifyEmail, clearOtpFlow, getProfile or signOut has been entered, the
\* error slot is empty.
C20_EntryClearsError ==
    [][(\/ \E k \in {"login", "register", "startOtpFlow", "verifyOtp",
                     "verifyEmail", "clearOtpFlow", "getProfile", "signOut"} :
              Entered(k)
        \/ SignOutEnteredBy401
        \/ GetProfileRefused) => error' = NULL]_vars

\* C20, amended: right after login, register, verifyOtp, verifyEmail,
\* signOut or a getProfile called with a token has been entered, the error
\* slot is empty; startOtpFlow, clearOtpFlow and a getProfile called without
\* a token leave the slot as it was.
C20_EntryClearsErrorOfRequests ==
    [][/\ (\/ \E k \in {"login", "register", "verifyOtp", "verifyEmail",
                         "getProfile", "signOut"} : Entered(k)
            \/ SignOutEnteredBy401) => error' = NULL
       /\ (\/ Entered("startOtpFlow")
            \/ Entered("clearOtpFlow")
            \/ GetProfileRefused) => error' = error]_vars

\* startOtpFlow has been entered and the slot still holds the error of the
\* operation before it.
C20_Witness ==
    \E s \in Slots :
        /\ ops[s].kind = "startOtpFlow" /\ ops[s].pc = "save"
        /\ error # NULL

----------------------------------------------------------------------------
(* Operations in progress                                                  *)

C22_PendingKeysTogether ==
    AllIdle => ((storage[PENDING_EMAIL] = NULL) <=> (storage[IS_REGISTRATION_FLOW] = NULL))

----------------------------------------------------------------------------
(* Routing                                                                 *)

\* C24: on every route, the root layout renders the loading indicator and
\* nothing else while restoration has not finished or ready is false; once
\* ready is true it redirects to the auth screen when no user is set and the
\* route is outside the auth group, and to the tabs when a user is set and
\* the route is the auth group.
C24_NoRoutingBeforeRestoration ==
    \A segment \in Segments :
        /\ (restorePc = "reading" \/ ~Ready) => RootLayoutNav(segment) = "ActivityIndicator"
        /\ (Ready /\ user = NULL /\ segment # "auth") => RootLayoutNav(segment) = "Redirect /auth"
        /\ (Ready /\ user # NULL /\ segment = "auth") => RootLayoutNav(segment) = "Redirect /(tabs)"

\* Restoration found a stored session: on the auth route the layout now
\* redirects to the tabs.
C24_Witness ==
    /\ ret.kind = "restoreAuthState"
    /\ Ready
    /\ user # NULL
    /\ RootLayoutNav("auth") = "Redirect /(tabs)"
    /\ RootLayoutNav("modal") = "Stack"

\* C29: a verifyOtp that reports failure has not set user and accessToken:
\* it threw before any answer was applied, and the session is never left
\* with user and accessToken set, pending still set and an 'otp' error.
C29_FailedVerifyOtpKeepsSession ==
    (ret.kind = "verifyOtp" /\ ret.pc = "threw") =>
        /\ ret.token = NULL /\ ret.u = NULL
        /\ ~(user # NULL /\ accessToken # NULL /\ pendingEmail # NULL /\ error = "otp")

----------------------------------------------------------------------------
(* Overlapping calls                                                       *)

\* C25: whenever the error slot is non-empty, the error's kind is the kind
\* of the most recently started network operation: of the newest call while
\* it is in flight, and of the call that finished last while no call has
\* started since.
C25_ErrorFollowsNewest ==
    error # NULL =>
        /\ \A s \in Slots :
              (ops[s].newest /\ ops[s].kind \in NetworkOps) => error = ErrorType(ops[s].kind)
        /\ (ret.newest /\ ret.kind \in NetworkOps) => error = ErrorType(ret.kind)

\* C27: a call that was in flight when a signOut completed never sets user
\* or accessToken in memory, nor their keys in the store: the session stays
\* signed out until a call started after the signOut succeeds.
C27_SignOutIsFinal ==
    [][\A s \in Slots :
        (ops[s].stale /\ ops'[s] # ops[s]) =>
            /\ user' # user => user' = NULL
            /\ accessToken' # accessToken => accessToken' = NULL
            /\ \A k \in AuthKeys : storage'[k] # storage[k] => storage'[k] = NULL]_vars

C30_RestorationBeforeOperations ==
    /\ []((restorePc = "reading" \/ ~Ready) => (AllIdle /\ ret = Idle))
    /\ [][(restorePc = "reading" /\ restorePc' = "done") =>
            /\ AllIdle /\ ret = Idle
            /\ user = NULL /\ accessToken = NULL /\ error = NULL
            /\ pendingEmail = NULL /\ ~isRegistrationFlow /\ ~isLoading]_vars

\* A login is in flight on a session that restoration brought back from the
\* store.
C30_Witness ==
    \E s \in Slots :
        /\ ops[s].kind = "login" /\ ops[s].pc = "net"
        /\ Ready /\ restorePc = "done"
        /\ ops[s].preAuth.accessToken # NULL
        /\ ops[s].preAuth.accessToken = ops[s].preAuth.storedToken
        /\ ops[s].preAuth.user # NULL

----------------------------------------------------------------------------
(* AuthScreen                                                              *)

\* C26: after Back was pressed in OTP mode with a pending verification, the
\* screen shows the login or registration form and keeps showing it, and the
\* pending verification is cleared in memory and in the store.
C26_BackCancelsOtp ==
    (ret.kind = "handleBackToForm" /\ ret.prePending.pendingEmail # NULL) =>
        /\ mode \in {"login", "register"}
        /\ pendingEmail = NULL
        /\ \A k \in PendingKeys : storage[k] = NULL

====
